---- MODULE Spec2Model ----
(***************************************************************************)
(* histo: streaming facet aggregation (src/main.go).                       *)
(*                                                                         *)
(* A producer goroutine scans lines from the input source into a bounded   *)
(* channel; the event loop drains the channel on every tick, and handles   *)
(* key presses (view switches, navigation, pin toggles) in between.        *)
(*                                                                         *)
(* Strings are sequences of one-character strings, so that TrimSpace,      *)
(* Split and ParseFloat are computed rather than assumed.  A finite sample  *)
(* is held exactly, as its number of tenths (105 stands for 10.5); NaN and *)
(* +Inf are values of their own.  Means are compared exactly by            *)
(* cross-multiplication, which agrees with the float64 comparison of       *)
(* sum/len for sums and lengths this small.                                *)
(***************************************************************************)
EXTENDS Integers, Sequences, FiniteSets, TLC

\* -------------------------------------------------------------------------
\* Bounds of the model
\* -------------------------------------------------------------------------

\* lines the input source delivers in a run of Spec
MaxLines == 3

\* lines the input source delivers in a run of SpecQ (more than ChanCap)
QLen == 102

\* iterations of the drain loop on a closed channel that are told apart
MaxSpin == 2

\* lines the input source delivers in a run of SpecRank
RankLines == 3

\* lines the input source delivers in a run of SpecBucket
BucketLines == 3

\* -------------------------------------------------------------------------
\* Program constants
\* -------------------------------------------------------------------------

\* make(chan string, 100)
ChanCap == 100

\* columns = max(1, m.winWidth/60)
PanelWidth == 60

\* -------------------------------------------------------------------------
\* Characters and strings
\* -------------------------------------------------------------------------

TAB == "\t"

SP == " "

\* the characters of the alphabet that unicode.IsSpace accepts
Space == {SP, TAB}

DigitVal == ("0" :> 0) @@ ("1" :> 1) @@ ("2" :> 2) @@ ("3" :> 3) @@ ("4" :> 4)
            @@ ("5" :> 5) @@ ("6" :> 6) @@ ("7" :> 7) @@ ("8" :> 8) @@ ("9" :> 9)

\* byte value of each character of the alphabet (Go compares strings bytewise)
ByteOf == (TAB :> 9) @@ (SP :> 32) @@ ("." :> 46) @@ ("0" :> 48) @@ ("1" :> 49)
          @@ ("2" :> 50) @@ ("3" :> 51) @@ ("4" :> 52) @@ ("5" :> 53) @@ ("6" :> 54)
          @@ ("7" :> 55) @@ ("8" :> 56) @@ ("9" :> 57) @@ ("I" :> 73) @@ ("N" :> 78)
          @@ ("a" :> 97) @@ ("b" :> 98) @@ ("c" :> 99) @@ ("d" :> 100) @@ ("e" :> 101)
          @@ ("f" :> 102) @@ ("j" :> 106) @@ ("l" :> 108) @@ ("n" :> 110)
          @@ ("o" :> 111) @@ ("r" :> 114) @@ ("s" :> 115) @@ ("t" :> 116)
          @@ ("u" :> 117)

RECURSIVE StrLess(_, _)
\* Go's s < t on strings
StrLess(s, t) ==
    IF t = <<>> THEN FALSE
    ELSE IF s = <<>> THEN TRUE
    ELSE IF ByteOf[Head(s)] # ByteOf[Head(t)] THEN ByteOf[Head(s)] < ByteOf[Head(t)]
    ELSE StrLess(Tail(s), Tail(t))

RECURSIVE TrimLeft(_)
TrimLeft(s) ==
    IF s = <<>> \/ Head(s) \notin Space THEN s ELSE TrimLeft(Tail(s))

RECURSIVE TrimRight(_)
TrimRight(s) ==
    IF s = <<>> \/ s[Len(s)] \notin Space THEN s ELSE TrimRight(SubSeq(s, 1, Len(s) - 1))

\* strings.TrimSpace
TrimSpace(s) == TrimRight(TrimLeft(s))

RECURSIVE SplitTab(_)
\* strings.Split(s, "\t")
SplitTab(s) ==
    IF \A i \in 1..Len(s) : s[i] # TAB THEN <<s>>
    ELSE LET i == CHOOSE j \in 1..Len(s) : s[j] = TAB /\ \A k \in 1..(j - 1) : s[k] # TAB
         IN  <<SubSeq(s, 1, i - 1)>> \o SplitTab(SubSeq(s, i + 1, Len(s)))

RECURSIVE DecimalValue(_)
DecimalValue(s) ==
    IF s = <<>> THEN 0
    ELSE 10 * DecimalValue(SubSeq(s, 1, Len(s) - 1)) + DigitVal[s[Len(s)]]

\* the float64 NaN among the samples; every finite sample of the model is a natural
NaN == -1

\* the float64 +Inf among the samples: above every finite sample and every sum of
\* finite samples of the model
Inf == 1000000

\* s is a non-empty string of digits
IsDigits(s) == s # <<>> /\ \A i \in 1..Len(s) : s[i] \in DOMAIN DigitVal

\* strconv.ParseFloat(s, 64) on the strings of the model, in tenths: digit strings
\* and digit strings with one decimal parse, "NaN" and "Inf" parse to NaN and +Inf
\* without an error, everything else (other letters, blanks, the empty string) is
\* a syntax error
\* ParseFloat dropping the digit after the decimal point
ParseFloatTruncate(s) ==
    IF IsDigits(s)
    THEN [ok |-> TRUE, value |-> 10 * DecimalValue(s)]
    ELSE IF Len(s) >= 3 /\ s[Len(s) - 1] = "." /\ IsDigits(SubSeq(s, 1, Len(s) - 2))
                        /\ s[Len(s)] \in DOMAIN DigitVal
    THEN [ok |-> TRUE, value |-> 10 * DecimalValue(SubSeq(s, 1, Len(s) - 2))]
    ELSE IF s = <<"N", "a", "N">> THEN [ok |-> TRUE, value |-> NaN]
    ELSE IF s = <<"I", "n", "f">> THEN [ok |-> TRUE, value |-> Inf]
    ELSE [ok |-> FALSE, value |-> 0]

ParseFloat(s) ==
    IF IsDigits(s)
    THEN [ok |-> TRUE, value |-> 10 * DecimalValue(s)]
    ELSE IF Len(s) >= 3 /\ s[Len(s) - 1] = "." /\ IsDigits(SubSeq(s, 1, Len(s) - 2))
                        /\ s[Len(s)] \in DOMAIN DigitVal
    THEN [ok |-> TRUE,
          value |-> 10 * DecimalValue(SubSeq(s, 1, Len(s) - 2)) + DigitVal[s[Len(s)]]]
    ELSE IF s = <<"N", "a", "N">> THEN [ok |-> TRUE, value |-> NaN]
    ELSE IF s = <<"I", "n", "f">> THEN [ok |-> TRUE, value |-> Inf]
    ELSE [ok |-> FALSE, value |-> 0]

\* -------------------------------------------------------------------------
\* The lines of the input source
\* -------------------------------------------------------------------------

\* the lines a run of Spec may read
LineSet ==
    { <<"1", TAB, "a", TAB, "b">>,       \* two facets
      <<"2", TAB, "b">>,                 \* one facet; b is also a value of column 2
      <<"3", TAB, "c", TAB, "b", TAB>>,  \* the trailing tab is trimmed
      <<"a", TAB, "b">>,                 \* first field is not a number
      <<SP>> }                           \* empty once trimmed

\* the lines a run of SpecRank may read: equal means (a and b at 1), distinct
\* means, and a sample that is NaN
RankLineSet ==
    { <<"1", TAB, "a">>,
      <<"1", TAB, "b">>,
      <<"2", TAB, "c">>,
      <<"N", "a", "N", TAB, "a">> }

\* the facet values of the README example
red == <<"r", "e", "d">>

blue == <<"b", "l", "u", "e">>

seattle == <<"s", "e", "a", "t", "t", "l", "e">>

sanjose == <<"s", "a", "n", SP, "j", "o", "s", "e">>

\* the README example, tab separated
ExampleLines ==
    << <<"1", "0", ".", "5", TAB>> \o red \o <<TAB>> \o seattle,
       <<"1", "5", ".", "2", TAB>> \o red \o <<TAB>> \o sanjose,
       <<"8", ".", "7", TAB>> \o blue \o <<TAB>> \o seattle,
       <<"1", "2", ".", "1", TAB>> \o blue \o <<TAB>> \o sanjose >>

\* the lines a run of SpecBucket may read: finite samples under two keys and a
\* sample that is +Inf
BucketLineSet ==
    { <<"1", TAB, "a">>,
      <<"2", TAB, "b">>,
      <<"3", TAB, "a", TAB, "b">>,
      <<"I", "n", "f", TAB, "a">> }

\* the lines a run of SpecQ reads, by position
QLine(i) ==
    IF i % 3 = 0 THEN <<"1", TAB, "a">>
    ELSE IF i % 3 = 1 THEN <<"2", TAB, "b">>
    ELSE <<"b">>

\* -------------------------------------------------------------------------
\* State
\* -------------------------------------------------------------------------

VARIABLES
    scanned,             \* the lines scanner.Scan() has returned so far
    ppc,                 \* producer goroutine: "scan", "send" or "closed"
    lines,               \* m.lines, the buffered channel
    pc,                  \* event loop: "idle", "drain" (inside the tick handler's loop)
                         \* or "crashed" (a panic ended the program)
    spins,               \* receives from the closed channel in the current tick
    storedLines,         \* m.storedLines
    facetsData,          \* m.facetsData
    filteredData,        \* m.filteredData
    stringValues,        \* m.stringValues
    totalLogCount,       \* m.totalLogCount
    facet,               \* m.facet
    activeFacet,         \* m.activeFacet
    pinnedFacets,        \* m.pinnedFacets (the keys mapped to true)
    pinnedFacetsColumn,  \* m.pinnedFacetsColumn
    isFiltered,          \* m.isFiltered
    winWidth,            \* m.winWidth
    last,                \* the message handled last: "init", "line", "enter", "move"
                         \* or "key" (any other key, or a resize)
    view                 \* what the last call of View rendered

vars == <<scanned, ppc, lines, pc, spins, storedLines, facetsData, filteredData,
          stringValues, totalLogCount, facet, activeFacet, pinnedFacets,
          pinnedFacetsColumn, isFiltered, winWidth, last, view>>

producerVars == <<scanned, ppc>>

dataVars == <<storedLines, facetsData, filteredData, stringValues, totalLogCount>>

viewVars == <<facet, activeFacet, winWidth>>

pinVars == <<pinnedFacets, pinnedFacetsColumn, isFiltered>>

\* a map with no keys
EmptyMap == [x \in {} |-> 0]

\* nothing rendered yet
NoView == [mode |-> "none", gmin |-> 0, gmax |-> 0, panels |-> EmptyMap]

\* -------------------------------------------------------------------------
\* Aggregation
\* -------------------------------------------------------------------------

\* the part of the model struct that processLineWithFilter reads and writes
Engine ==
    [facetsData |-> facetsData, filteredData |-> filteredData,
     stringValues |-> stringValues, totalLogCount |-> totalLogCount,
     storedLines |-> storedLines, pinnedFacets |-> pinnedFacets,
     pinnedFacetsColumn |-> pinnedFacetsColumn, isFiltered |-> isFiltered]

\* m[k] of a Go map: the zero value for a missing key
Lookup(map, k, zero) == IF k \in DOMAIN map THEN map[k] ELSE zero

\* AddSample putting the new value in front of the samples already there
AddSamplePrepend(table, index, key, value) ==
    LET col  == Lookup(table, index, EmptyMap)
        col2 == [k \in DOMAIN col \cup {key} |->
                    IF k = key THEN <<value>> \o Lookup(col, key, <<>>) ELSE col[k]]
    IN  [c \in DOMAIN table \cup {index} |-> IF c = index THEN col2 ELSE table[c]]

\* AddSample creating the entry of a new key without its first sample
AddSampleCreateEmpty(table, index, key, value) ==
    LET col  == Lookup(table, index, EmptyMap)
        col2 == [k \in DOMAIN col \cup {key} |->
                    IF k \in DOMAIN col
                    THEN (IF k = key THEN Append(col[k], value) ELSE col[k])
                    ELSE <<>>]
    IN  [c \in DOMAIN table \cup {index} |-> IF c = index THEN col2 ELSE table[c]]

\* targetData[index][facet] = append(targetData[index][facet], value)
AddSample(table, index, key, value) ==
    LET col  == Lookup(table, index, EmptyMap)
        col2 == [k \in DOMAIN col \cup {key} |->
                    IF k = key THEN Append(Lookup(col, key, <<>>), value) ELSE col[k]]
    IN  [c \in DOMAIN table \cup {index} |-> IF c = index THEN col2 ELSE table[c]]

RECURSIVE AddFacets(_, _, _, _)
\* for i, facet := range parts[1:]
AddFacets(table, parts, i, value) ==
    IF i > Len(parts) - 1 THEN table
    ELSE AddFacets(AddSample(table, i, parts[i + 1], value), parts, i + 1, value)

\* PinRejects with a pin vetoing every record too short to have its column
PinRejectsShort(m, parts) ==
    \E p \in m.pinnedFacets :
        LET pinnedCol == Lookup(m.pinnedFacetsColumn, p, 0)
        IN  pinnedCol >= Len(parts) \/ parts[pinnedCol + 1] # p

\* the pin loop of processLineWithFilter: TRUE when some pin rejects the record
PinRejects(m, parts) ==
    \E p \in m.pinnedFacets :
        LET pinnedCol == Lookup(m.pinnedFacetsColumn, p, 0)
        IN  pinnedCol < Len(parts) /\ parts[pinnedCol + 1] # p

processLineWithFilter(m, line, applyFilter) ==
    LET trimmed == TrimSpace(line)
        parts   == SplitTab(trimmed)
        parsed  == ParseFloat(parts[1])
    IN  IF trimmed = <<>> THEN m
        ELSE IF applyFilter /\ m.pinnedFacets # {} /\ PinRejects(m, parts) THEN m
        ELSE IF ~parsed.ok THEN
            IF ~applyFilter
            THEN [m EXCEPT !.stringValues =
                               [k \in DOMAIN m.stringValues \cup {parts[1]} |->
                                   Lookup(m.stringValues, k, 0) + (IF k = parts[1] THEN 1 ELSE 0)],
                           !.totalLogCount = @ + 1]
            ELSE m
        ELSE LET m1 == IF ~applyFilter THEN [m EXCEPT !.totalLogCount = @ + 1] ELSE m
             IN  IF applyFilter
                 THEN [m1 EXCEPT !.filteredData = AddFacets(@, parts, 1, parsed.value)]
                 ELSE [m1 EXCEPT !.facetsData = AddFacets(@, parts, 1, parsed.value)]

\* processLine without the second pass while a filter is active
processLineSkipFiltered(m, line) ==
    processLineWithFilter([m EXCEPT !.storedLines = Append(@, line)], line, FALSE)

\* processLine with the second pass whether or not a filter is active
processLineAlwaysFiltered(m, line) ==
    LET m1 == [m EXCEPT !.storedLines = Append(@, line)]
    IN  processLineWithFilter(processLineWithFilter(m1, line, FALSE), line, TRUE)

\* processLine storing the trimmed line instead of the raw one
processLineStoreTrimmed(m, line) ==
    LET m1 == [m EXCEPT !.storedLines = Append(@, TrimSpace(line))]
        m2 == processLineWithFilter(m1, line, FALSE)
    IN  IF m2.isFiltered THEN processLineWithFilter(m2, line, TRUE) ELSE m2

\* processLine with the filtered pass counting the record a second time
processLineCountsFilteredPass(m, line) ==
    LET m1 == [m EXCEPT !.storedLines = Append(@, line)]
        m2 == processLineWithFilter(m1, line, FALSE)
    IN  IF m2.isFiltered
        THEN [processLineWithFilter(m2, line, TRUE) EXCEPT
                 !.totalLogCount = @ + (IF TrimSpace(line) = <<>> THEN 0 ELSE 1)]
        ELSE m2

\* processLine with the filtered pass counting a non-numeric first field again
processLineStringsInFilteredPass(m, line) ==
    LET m1 == [m EXCEPT !.storedLines = Append(@, line)]
        m2 == processLineWithFilter(m1, line, FALSE)
        m3 == processLineWithFilter(m2, line, TRUE)
    IN  IF m2.isFiltered
        THEN [m3 EXCEPT !.stringValues =
                 [k \in DOMAIN @ |->
                     @[k] + (IF TrimSpace(line) # <<>> /\ k = SplitTab(TrimSpace(line))[1]
                             THEN 1 ELSE 0)]]
        ELSE m2

\* processLine feeding only the filtered table while a filter is active
processLineFilteredOnly(m, line) ==
    LET m1 == [m EXCEPT !.storedLines = Append(@, line)]
    IN  IF m1.isFiltered
        THEN [processLineWithFilter(m1, line, TRUE) EXCEPT
                 !.totalLogCount = @ + (IF TrimSpace(line) = <<>> THEN 0 ELSE 1)]
        ELSE processLineWithFilter(m1, line, FALSE)

\* processLine counting a line that is empty once trimmed
processLineCountsBlank(m, line) ==
    LET m1 == [m EXCEPT !.storedLines = Append(@, line),
                        !.totalLogCount = @ + (IF TrimSpace(line) = <<>> THEN 1 ELSE 0)]
        m2 == processLineWithFilter(m1, line, FALSE)
    IN  IF m2.isFiltered THEN processLineWithFilter(m2, line, TRUE) ELSE m2

processLine(m, line) ==
    LET m1 == [m EXCEPT !.storedLines = Append(@, line)]
        m2 == processLineWithFilter(m1, line, FALSE)
    IN  IF m2.isFiltered THEN processLineWithFilter(m2, line, TRUE) ELSE m2

RECURSIVE Replay(_, _, _)
\* for _, line := range m.storedLines { m.processLineWithFilter(line, true) }
Replay(m, ls, i) ==
    IF i > Len(ls) THEN m ELSE Replay(processLineWithFilter(m, ls[i], TRUE), ls, i + 1)

\* regenerateFilteredData replaying onto the old filtered table
regenerateNoReset(m) == Replay(m, m.storedLines, 1)

regenerateFilteredData(m) ==
    LET m1 == [m EXCEPT !.filteredData = [c \in DOMAIN m.facetsData |-> EmptyMap]]
    IN  Replay(m1, m1.storedLines, 1)

\* -------------------------------------------------------------------------
\* Initial state (main)
\* -------------------------------------------------------------------------

Init ==
    /\ scanned = <<>>
    /\ ppc = "scan"
    /\ lines = <<>>
    /\ pc = "idle"
    /\ spins = 0
    /\ storedLines = <<>>
    /\ facetsData = EmptyMap
    /\ filteredData = EmptyMap
    /\ stringValues = EmptyMap
    /\ totalLogCount = 0
    /\ facet = 0
    /\ activeFacet = <<>>
    /\ pinnedFacets = {}
    /\ pinnedFacetsColumn = EmptyMap
    /\ isFiltered = FALSE
    /\ winWidth = 80
    /\ last = "init"
    /\ view = NoView

\* -------------------------------------------------------------------------
\* Producer goroutine (Init's go func)
\* -------------------------------------------------------------------------

\* scanner.Scan() returns true: the next line of the source
Scan(line, limit) ==
    /\ ppc = "scan"
    /\ pc # "crashed"
    /\ Len(scanned) < limit
    /\ scanned' = Append(scanned, line)
    /\ ppc' = "send"
    /\ UNCHANGED <<lines, pc, spins, dataVars, viewVars, pinVars, last, view>>

\* Send that drops the line instead of blocking when the channel is full
SendNoBlock ==
    /\ ppc = "send"
    /\ pc # "crashed"
    /\ lines' = IF Len(lines) < ChanCap THEN Append(lines, scanned[Len(scanned)]) ELSE lines
    /\ ppc' = "scan"
    /\ UNCHANGED <<scanned, pc, spins, dataVars, viewVars, pinVars, last, view>>

\* m.lines <- scanner.Text(): blocks while the channel is full
Send ==
    /\ ppc = "send"
    /\ pc # "crashed"
    /\ Len(lines) < ChanCap
    /\ lines' = Append(lines, scanned[Len(scanned)])
    /\ ppc' = "scan"
    /\ UNCHANGED <<scanned, pc, spins, dataVars, viewVars, pinVars, last, view>>

\* scanner.Scan() returns false: close(m.lines)
Close ==
    /\ ppc = "scan"
    /\ pc # "crashed"
    /\ ppc' = "closed"
    /\ UNCHANGED <<scanned, lines, pc, spins, dataVars, viewVars, pinVars, last, view>>

\* -------------------------------------------------------------------------
\* Tick handler
\* -------------------------------------------------------------------------

\* the event loop delivers a tickMsg
Tick ==
    /\ pc = "idle"
    /\ pc' = "drain"
    /\ spins' = 0
    /\ UNCHANGED <<producerVars, lines, dataVars, viewVars, pinVars, last, view>>

\* case line, ok := <-m.lines with a buffered line: m.processLine(line)
DrainRecv ==
    /\ pc = "drain"
    /\ lines # <<>>
    /\ LET m == processLine(Engine, Head(lines))
       IN  /\ storedLines' = m.storedLines
           /\ facetsData' = m.facetsData
           /\ filteredData' = m.filteredData
           /\ stringValues' = m.stringValues
           /\ totalLogCount' = m.totalLogCount
    /\ lines' = Tail(lines)
    /\ last' = "line"
    /\ UNCHANGED <<producerVars, pc, spins, viewVars, pinVars, view>>

\* the same case on the closed, empty channel: ok is false and the break leaves
\* the select statement only, so the for loop polls again
DrainClosed ==
    /\ pc = "drain"
    /\ lines = <<>>
    /\ ppc = "closed"
    /\ spins < MaxSpin
    /\ spins' = spins + 1
    /\ UNCHANGED <<producerVars, lines, pc, dataVars, viewVars, pinVars, last, view>>

\* DrainDone returning while lines are still buffered
DrainDoneEarly ==
    /\ pc = "drain"
    /\ ppc # "closed"
    /\ pc' = "idle"
    /\ UNCHANGED <<producerVars, lines, spins, dataVars, viewVars, pinVars, last, view>>

\* default: goto done; return m, tickCmd()
DrainDone ==
    /\ pc = "drain"
    /\ lines = <<>>
    /\ ppc # "closed"
    /\ pc' = "idle"
    /\ UNCHANGED <<producerVars, lines, spins, dataVars, viewVars, pinVars, last, view>>

\* -------------------------------------------------------------------------
\* Ranking
\* -------------------------------------------------------------------------

RECURSIVE SumOf(_)
\* sum += v over the slice; a NaN sample makes the sum NaN, and otherwise a +Inf
\* sample makes it +Inf
SumOf(values) ==
    IF values = <<>> THEN 0
    ELSE LET rest == SumOf(Tail(values))
         IN  IF Head(values) = NaN \/ rest = NaN THEN NaN
             ELSE IF Head(values) = Inf \/ rest = Inf THEN Inf
             ELSE Head(values) + rest

\* the mean of a slice as the fraction <<numerator, denominator>>; 0.0 when empty,
\* NaN (numerator NaN) when the sum is NaN, +Inf (Inf over 1) when it is +Inf
computeMean(values) ==
    IF Len(values) = 0 THEN <<0, 1>>
    ELSE IF SumOf(values) = Inf THEN <<Inf, 1>>
    ELSE <<SumOf(values), Len(values)>>

\* math.IsNaN of a mean
IsNaN(mean) == mean[1] = NaN

\* meanI > meanJ: false when either side is NaN
MeanGreater(mi, mj) ==
    ~IsNaN(mi) /\ ~IsNaN(mj) /\ mi[1] * mj[2] > mj[1] * mi[2]

\* meanI != meanJ: true when either side is NaN
MeanDiffers(mi, mj) ==
    IsNaN(mi) \/ IsNaN(mj) \/ mi[1] * mj[2] # mj[1] * mi[2]

\* the less function handed to sort.Slice
KeyLess(facetData, ki, kj) ==
    LET meanI == computeMean(facetData[ki])
        meanJ == computeMean(facetData[kj])
    IN  IF MeanDiffers(meanI, meanJ)
        THEN MeanGreater(meanI, meanJ)
        ELSE StrLess(ki, kj)

\* the orders in which a range statement may visit the keys of a map
Orders(S) ==
    {o \in [1..Cardinality(S) -> S] : \A i, j \in 1..Cardinality(S) : o[i] = o[j] => i = j}

RECURSIVE Insert(_, _, _)
\* the inner loop of the insertion sort: the key moves left while it is less than
\* its left neighbour
Insert(facetData, sorted, k) ==
    IF sorted = <<>> \/ ~KeyLess(facetData, k, sorted[Len(sorted)])
    THEN Append(sorted, k)
    ELSE Append(Insert(facetData, SubSeq(sorted, 1, Len(sorted) - 1), k), sorted[Len(sorted)])

RECURSIVE SortSlice(_, _)
\* sort.Slice(keys, less) on a slice of at most 12 keys: an insertion sort
SortSlice(facetData, keys) ==
    IF keys = <<>> THEN <<>>
    ELSE Insert(facetData, SortSlice(facetData, SubSeq(keys, 1, Len(keys) - 1)), keys[Len(keys)])

\* getSortedFacetKeys when the range over facetData visits the keys in this order
getSortedFacetKeys(facetData, order) == SortSlice(facetData, order)

\* the sequences getSortedFacetKeys may return for facetData
Rankings(facetData) ==
    {getSortedFacetKeys(facetData, o) : o \in Orders(DOMAIN facetData)}

\* -------------------------------------------------------------------------
\* Navigation
\* -------------------------------------------------------------------------

\* m.gridColumns: View and the render functions have value receivers, so the
\* assignment in renderSingleFacet reaches a copy and the field keeps this value
gridColumns == 0

Max(a, b) == IF a > b THEN a ELSE b

\* dataSource := m.facetsData; if m.isFiltered { dataSource = m.filteredData }
DataSource(filtered) == IF filtered THEN filteredData ELSE facetsData

\* for facetCol := range dataSource { keys := ...; if len(keys) > 0 { first = keys[0]; break } }
\* any column that has keys may be visited first
FirstKeys(ds) ==
    UNION {{keys[1] : keys \in Rankings(ds[c])} : c \in {d \in DOMAIN ds : DOMAIN ds[d] # {}}}

RECURSIVE ConcatKeys(_, _, _)
\* allKeys = append(allKeys, keys...) over the columns in the order visited: the
\* lists that may result
ConcatKeys(ds, order, i) ==
    IF i > Len(order) THEN {<<>>}
    ELSE {keys \o rest : keys \in Rankings(ds[order[i]]), rest \in ConcatKeys(ds, order, i + 1)}

\* the address lists the all-facets branch of navigateGrid may build
AddressLists(ds) == UNION {ConcatKeys(ds, o, 1) : o \in Orders(DOMAIN ds)}

\* index (from 0) of the first occurrence of key in keys, or -1
IndexOf(keys, key) ==
    IF \E i \in 1..Len(keys) : keys[i] = key
    THEN (CHOOSE i \in 1..Len(keys) : keys[i] = key /\ \A j \in 1..(i - 1) : keys[j] # key) - 1
    ELSE -1

\* navigateGrid with m.facet == 0, from active facet a over the address list allKeys
NavAll(a, allKeys, dx, dy) ==
    LET currentIndex == IndexOf(allKeys, a)
    IN  IF Len(allKeys) = 0 THEN a
        ELSE IF currentIndex = -1 THEN allKeys[1]
        ELSE IF dy > 0
             THEN allKeys[(IF currentIndex + 1 >= Len(allKeys)
                           THEN Len(allKeys) - 1 ELSE currentIndex + 1) + 1]
        ELSE IF dy < 0
             THEN allKeys[(IF currentIndex - 1 < 0 THEN 0 ELSE currentIndex - 1) + 1]
        ELSE a

\* NavSingle with a move to a cell past the last key clearing the selection
NavSingleClear(keys, dx, dy) ==
    LET currentIndex == IndexOf(keys, activeFacet)
        columns      == Max(1, winWidth \div PanelWidth)
        targetRow    == (currentIndex \div columns) + dy
        targetCol    == (currentIndex % columns) + dx
        targetIndex  == targetRow * columns + targetCol
    IN  IF Len(keys) = 0 THEN activeFacet
        ELSE IF currentIndex = -1 THEN keys[1]
        ELSE IF targetRow < 0 \/ targetCol < 0 THEN activeFacet
        ELSE IF targetIndex < Len(keys) THEN keys[targetIndex + 1]
        ELSE <<>>

\* navigateGrid with m.facet > 0, over the ranked keys of the column
NavSingle(keys, dx, dy) ==
    LET currentIndex == IndexOf(keys, activeFacet)
        columns      == IF gridColumns < 1 THEN Max(1, winWidth \div PanelWidth)
                        ELSE gridColumns
        currentRow   == currentIndex \div columns
        currentCol   == currentIndex % columns
        targetRow    == currentRow + dy
        targetCol    == currentCol + dx
        targetIndex  == targetRow * columns + targetCol
    IN  IF Len(keys) = 0 THEN activeFacet
        ELSE IF currentIndex = -1 THEN keys[1]
        ELSE IF targetRow < 0 \/ targetCol < 0 THEN activeFacet
        ELSE IF targetIndex >= 0 /\ targetIndex < Len(keys) THEN keys[targetIndex + 1]
        ELSE activeFacet

\* the values navigateGrid(dx, dy) may leave in m.activeFacet
navigateGrid(dx, dy) ==
    LET ds == DataSource(isFiltered)
    IN  IF facet = 0
        THEN LET starts == IF activeFacet = <<>>
                           THEN (IF FirstKeys(ds) = {} THEN {<<>>} ELSE FirstKeys(ds))
                           ELSE {activeFacet}
             IN  UNION {IF a = <<>> THEN {a}
                        ELSE {NavAll(a, allKeys, dx, dy) : allKeys \in AddressLists(ds)}
                        : a \in starts}
        ELSE IF facet \notin DOMAIN ds THEN {activeFacet}
        ELSE {NavSingle(keys, dx, dy) : keys \in Rankings(ds[facet])}

\* the values resetActiveFacet may leave in m.activeFacet, for view column f
resetActiveFacet(f, ds) ==
    IF f = 0
    THEN (IF FirstKeys(ds) = {} THEN {<<>>} ELSE FirstKeys(ds))
    ELSE IF f \in DOMAIN ds /\ DOMAIN ds[f] # {}
         THEN {keys[1] : keys \in Rankings(ds[f])}
         ELSE {activeFacet}

\* -------------------------------------------------------------------------
\* Rendering (View and the functions it calls)
\* -------------------------------------------------------------------------

\* the bin count renderSingleFacet passes to createVerticalHistogram
binCount == 10

\* const bucketCount = 20 of renderMultiFacet
bucketCount == 20

\* m.stats: the -stats flag, false by default
stats == FALSE

\* int(x) of a NaN x is implementation-dependent: the most negative integer
\* (amd64), 0 (arm64) or the greatest integer (riscv64). MinInt and MaxInt stand
\* for the 64-bit extremes; the clamps only look at their sign and at MaxInt
\* being at least the bucket count.
MinInt == -2147483647

MaxInt == 2147483647

IntOfNaN == {MinInt, 0, MaxInt}

\* the (column, key) entries of a table
Entries(ds) == UNION {{c} \X DOMAIN ds[c] : c \in DOMAIN ds}

\* the sample values of a table
ValuesOf(ds) == UNION {{ds[e[1]][e[2]][i] : i \in 1..Len(ds[e[1]][e[2]])} : e \in Entries(ds)}

\* the least and the greatest element of a non-empty set of numbers
MinOf(S) == CHOOSE x \in S : \A y \in S : x <= y

MaxOf(S) == CHOOSE x \in S : \A y \in S : y <= x

\* globalRange: the results it may return. allValues is filled in map iteration
\* order and the scan starts from allValues[0]; every comparison with NaN is
\* false, so a NaN first makes both ends NaN and a NaN elsewhere is skipped.
globalRange(ds) ==
    LET allValues == ValuesOf(ds)
        firsts    == {ds[e[1]][e[2]][1] : e \in {x \in Entries(ds) : ds[x[1]][x[2]] # <<>>}}
    IN  IF allValues = {} THEN {[ok |-> FALSE, gmin |-> 0, gmax |-> 0]}
        ELSE {IF first = NaN
              THEN [ok |-> TRUE, gmin |-> NaN, gmax |-> NaN]
              ELSE [ok |-> TRUE, gmin |-> MinOf(allValues \ {NaN}),
                                 gmax |-> MaxOf(allValues \ {NaN})] : first \in firsts}

\* the values int((v - gmin) / binSize) may take, binSize = (gmax - gmin) / K.
\* Inf - Inf, Inf / Inf and 0 / 0 are NaN; a finite v over an infinite binSize
\* gives 0; when the exact quotient of finite values is an integer n > 0 the
\* rounding of binSize and of the division decides between n - 1 and n.
BucketIndexes(v, gmin, gmax, K) ==
    IF v = NaN \/ gmin = NaN \/ gmax = NaN THEN IntOfNaN
    ELSE IF gmax = Inf THEN (IF gmin = Inf \/ v = Inf THEN IntOfNaN ELSE {0})
    ELSE IF gmax = gmin THEN IntOfNaN
    ELSE LET num == (v - gmin) * K
             den == gmax - gmin
         IN  IF num % den = 0 /\ num > 0
             THEN {(num \div den) - 1, num \div den}
             ELSE {num \div den}

\* the index sequences the bucket loop may compute for the samples, one each
IndexChoices(values, gmin, gmax, K) ==
    {idx \in [1..Len(values) -> UNION {BucketIndexes(values[i], gmin, gmax, K) :
                                          i \in 1..Len(values)}] :
        \A i \in 1..Len(values) : idx[i] \in BucketIndexes(values[i], gmin, gmax, K)}

\* bins[idx]++ for every sample: the counts of buckets 0..K-1, at 1..K
CountBins(idx, K) == [b \in 1..K |-> Cardinality({i \in DOMAIN idx : idx[i] = b - 1})]

\* createVerticalHistogram: the bins it may count, or the panic of bins[idx]
\* with a negative idx (only idx >= binCount is clamped); no bins are counted
\* for no values or gmin == gmax
createVerticalHistogram(values, gmin, gmax, K) ==
    IF Len(values) = 0 \/ (gmin = gmax /\ gmin # NaN)
    THEN {[panic |-> FALSE, bins |-> <<>>]}
    ELSE {LET clamped == [i \in DOMAIN idx |-> IF idx[i] >= K THEN K - 1 ELSE idx[i]]
          IN  IF \E i \in DOMAIN clamped : clamped[i] < 0
              THEN [panic |-> TRUE, bins |-> <<>>]
              ELSE [panic |-> FALSE, bins |-> CountBins(clamped, K)] :
             idx \in IndexChoices(values, gmin, gmax, K)}

\* the bucket loop of renderMultiFacet, which clamps the index on both sides
multiFacetBuckets(values, gmin, gmax, K) ==
    {[panic |-> FALSE,
      bins  |-> CountBins([i \in DOMAIN idx |-> IF idx[i] >= K THEN K - 1
                                                ELSE IF idx[i] < 0 THEN 0
                                                ELSE idx[i]], K)] :
        idx \in IndexChoices(values, gmin, gmax, K)}

\* what a renderer shows for the entries es of ds over the range r: a histogram
\* per entry, one of outcomes[e], or the panic of any of them
Panels(mode, ds, es, r, outcomes) ==
    {IF \E e \in es : choice[e].panic
     THEN [mode |-> "panic", gmin |-> r.gmin, gmax |-> r.gmax, panels |-> EmptyMap]
     ELSE [mode |-> mode, gmin |-> r.gmin, gmax |-> r.gmax,
           panels |-> [e \in es |-> [values |-> ds[e[1]][e[2]], bins |-> choice[e].bins]]] :
        choice \in {c \in [es -> UNION {outcomes[e] : e \in es}] :
                       \A e \in es : c[e] \in outcomes[e]}}

\* renderSingleFacet: a panel per key of the view column
renderSingleFacet(ds, f) ==
    IF f \notin DOMAIN ds \/ stats
    THEN {[NoView EXCEPT !.mode = "single"]}
    ELSE LET es == {e \in Entries(ds) : e[1] = f}
         IN  UNION {IF ~r.ok THEN {[NoView EXCEPT !.mode = "single"]}
                    ELSE Panels("single", ds, es, r,
                                [e \in es |-> createVerticalHistogram(ds[e[1]][e[2]],
                                                  r.gmin, r.gmax, binCount)]) :
                       r \in globalRange(ds)}

\* renderMultiFacet: a bucket row per key of every column
renderMultiFacet(ds) ==
    UNION {IF ~r.ok THEN {[NoView EXCEPT !.mode = "multi"]}
           ELSE Panels("multi", ds, Entries(ds), r,
                       [e \in Entries(ds) |-> multiFacetBuckets(ds[e[1]][e[2]],
                                                  r.gmin, r.gmax, bucketCount)]) :
              r \in globalRange(ds)}

\* View choosing the renderer by the view column first
ViewModeFacetFirst(strings, f) ==
    IF f # 0 THEN "single"
    ELSE IF DOMAIN strings # {} THEN "strings"
    ELSE "multi"

\* the renderer View selects for the content
ViewMode(strings, f) ==
    IF DOMAIN strings # {} THEN "strings"
    ELSE IF f # 0 THEN "single"
    ELSE "multi"

\* what View may render in the current state
Renderings ==
    IF ViewMode(stringValues, facet) = "strings" THEN {[NoView EXCEPT !.mode = "strings"]}
    ELSE IF ViewMode(stringValues, facet) = "single"
         THEN renderSingleFacet(DataSource(isFiltered), facet)
    ELSE renderMultiFacet(DataSource(isFiltered))

\* View, called by the runtime between two messages; a panic ends the program
View ==
    /\ pc = "idle"
    /\ view' \in Renderings
    /\ pc' = IF view'.mode = "panic" THEN "crashed" ELSE pc
    /\ UNCHANGED <<producerVars, lines, spins, dataVars, viewVars, pinVars, last>>

\* -------------------------------------------------------------------------
\* Key and window messages (handled between ticks)
\* -------------------------------------------------------------------------

\* case "left", "right", "up", "down"
KeyArrow(dx, dy) ==
    /\ pc = "idle"
    /\ activeFacet' \in navigateGrid(dx, dy)
    /\ last' = "move"
    /\ UNCHANGED <<producerVars, lines, pc, spins, dataVars, facet, winWidth, pinVars, view>>

\* case "a"
KeyA ==
    /\ pc = "idle"
    /\ IF facet > 0
       THEN /\ facet' = facet - 1
            /\ activeFacet' \in resetActiveFacet(facet - 1, DataSource(isFiltered))
       ELSE UNCHANGED <<facet, activeFacet>>
    /\ last' = "key"
    /\ UNCHANGED <<producerVars, lines, pc, spins, dataVars, winWidth, pinVars, view>>

\* maxFacet of case "d"
MaxFacet(ds) == IF DOMAIN ds = {} THEN 0 ELSE CHOOSE k \in DOMAIN ds : \A j \in DOMAIN ds : j <= k

\* KeyD without the upper clamp
KeyDUnclamped ==
    /\ pc = "idle"
    /\ facet' = facet + 1
    /\ activeFacet' \in resetActiveFacet(facet + 1, DataSource(isFiltered))
    /\ last' = "key"
    /\ UNCHANGED <<producerVars, lines, pc, spins, dataVars, winWidth, pinVars, view>>

\* case "d"
KeyD ==
    /\ pc = "idle"
    /\ LET ds       == DataSource(isFiltered)
           maxFacet == MaxFacet(ds)
       IN  IF facet = 0 /\ maxFacet > 0
           THEN /\ facet' = 1
                /\ activeFacet' \in resetActiveFacet(1, ds)
           ELSE IF facet < maxFacet
           THEN /\ facet' = facet + 1
                /\ activeFacet' \in resetActiveFacet(facet + 1, ds)
           ELSE UNCHANGED <<facet, activeFacet>>
    /\ last' = "key"
    /\ UNCHANGED <<producerVars, lines, pc, spins, dataVars, winWidth, pinVars, view>>

\* case "0"
Key0 ==
    /\ pc = "idle"
    /\ facet' = 0
    /\ activeFacet' \in resetActiveFacet(0, DataSource(isFiltered))
    /\ last' = "key"
    /\ UNCHANGED <<producerVars, lines, pc, spins, dataVars, winWidth, pinVars, view>>

\* the columns the all-facets branch of case "enter" may bind the value to
BindColumns(value) ==
    IF facet > 0 THEN {facet}
    ELSE {c \in DOMAIN facetsData : value \in DOMAIN facetsData[c]}

\* togglePin binding every pinned value to the column of the value added
togglePinRebindAll(m, value, col) ==
    IF value \in m.pinnedFacets
    THEN [m EXCEPT !.pinnedFacets = @ \ {value},
                   !.pinnedFacetsColumn = [k \in DOMAIN @ \ {value} |-> @[k]]]
    ELSE [m EXCEPT !.pinnedFacets = @ \cup {value},
                   !.pinnedFacetsColumn = [k \in DOMAIN @ \cup {value} |-> col]]

\* the pin maps after the toggle of case "enter", binding to column col
togglePin(m, value, col) ==
    IF value \in m.pinnedFacets
    THEN [m EXCEPT !.pinnedFacets = @ \ {value},
                   !.pinnedFacetsColumn = [k \in DOMAIN @ \ {value} |-> @[k]]]
    ELSE [m EXCEPT !.pinnedFacets = @ \cup {value},
                   !.pinnedFacetsColumn =
                       IF col = 0 THEN @
                       ELSE [k \in DOMAIN @ \cup {value} |-> IF k = value THEN col ELSE @[k]]]

\* afterToggle that never lowers the filter flag
afterToggleKeepFlag(m) ==
    LET m1 == [m EXCEPT !.isFiltered = (@ \/ m.pinnedFacets # {})]
    IN  IF m1.isFiltered THEN regenerateFilteredData(m1) ELSE m1

\* m.isFiltered = len(m.pinnedFacets) > 0; if m.isFiltered { m.regenerateFilteredData() }
afterToggle(m) ==
    LET m1 == [m EXCEPT !.isFiltered = (m.pinnedFacets # {})]
    IN  IF m1.isFiltered THEN regenerateFilteredData(m1) ELSE m1

\* case "enter"
KeyEnter ==
    /\ pc = "idle"
    /\ IF activeFacet # <<>>
       THEN \E col \in (IF BindColumns(activeFacet) = {} THEN {0} ELSE BindColumns(activeFacet)) :
              LET m == afterToggle(togglePin(Engine, activeFacet, col))
              IN  /\ pinnedFacets' = m.pinnedFacets
                  /\ pinnedFacetsColumn' = m.pinnedFacetsColumn
                  /\ isFiltered' = m.isFiltered
                  /\ storedLines' = m.storedLines
                  /\ facetsData' = m.facetsData
                  /\ filteredData' = m.filteredData
                  /\ stringValues' = m.stringValues
                  /\ totalLogCount' = m.totalLogCount
       ELSE UNCHANGED <<dataVars, pinVars>>
    /\ last' = "enter"
    /\ UNCHANGED <<producerVars, lines, pc, spins, viewVars, view>>

\* the widths a tea.WindowSizeMsg may carry
WinWidths == {80, 130}

\* case tea.WindowSizeMsg
WindowSize(w) ==
    /\ pc = "idle"
    /\ winWidth' = w
    /\ last' = "key"
    /\ UNCHANGED <<producerVars, lines, pc, spins, dataVars, facet, activeFacet, pinVars, view>>

\* -------------------------------------------------------------------------
\* Specifications
\* -------------------------------------------------------------------------

\* the arrow keys
Arrows ==
    \/ KeyArrow(-1, 0)
    \/ KeyArrow(1, 0)
    \/ KeyArrow(0, -1)
    \/ KeyArrow(0, 1)

\* the producer goroutine reading a source of at most MaxLines lines of LineSet
Producer ==
    \/ \E line \in LineSet : Scan(line, MaxLines)
    \/ Send
    \/ Close

\* the tick handler
Drain ==
    \/ Tick
    \/ DrainRecv
    \/ DrainClosed
    \/ DrainDone

\* ingestion, view switches, navigation and pin toggles in a window of the
\* default width
Next ==
    \/ Producer
    \/ Drain
    \/ Arrows
    \/ KeyA
    \/ KeyD
    \/ Key0
    \/ KeyEnter

Spec == Init /\ [][Next]_vars

\* ingestion, view switches and navigation in a window that is resized; no pins
NextNav ==
    \/ Producer
    \/ Drain
    \/ Arrows
    \/ KeyA
    \/ KeyD
    \/ Key0
    \/ \E w \in WinWidths : WindowSize(w)

SpecNav == Init /\ [][NextNav]_vars

\* the producer goroutine reading a source of at most RankLines lines of RankLineSet
ProducerRank ==
    \/ \E line \in RankLineSet : Scan(line, RankLines)
    \/ Send
    \/ Close

\* ingestion, view switches and navigation over facet maps with equal and NaN means
NextRank ==
    \/ ProducerRank
    \/ Drain
    \/ Arrows
    \/ KeyA
    \/ KeyD
    \/ Key0

SpecRank == Init /\ [][NextRank]_vars

\* the producer goroutine reading the README example
ProducerExample ==
    \/ Len(scanned) < Len(ExampleLines)
          /\ Scan(ExampleLines[Len(scanned) + 1], Len(ExampleLines))
    \/ Send
    \/ Close

\* the README example with view switches, navigation and pin toggles
NextExample ==
    \/ ProducerExample
    \/ Drain
    \/ Arrows
    \/ KeyA
    \/ KeyD
    \/ Key0
    \/ KeyEnter

SpecExample == Init /\ [][NextExample]_vars

\* the producer goroutine reading a source of at most BucketLines lines of
\* BucketLineSet
ProducerBucket ==
    \/ \E line \in BucketLineSet : Scan(line, BucketLines)
    \/ Send
    \/ Close

\* ingestion, view switches and rendering
NextBucket ==
    \/ ProducerBucket
    \/ Drain
    \/ KeyA
    \/ KeyD
    \/ Key0
    \/ View

SpecBucket == Init /\ [][NextBucket]_vars

\* the producer reading a source of QLen lines, which overfills the channel
ProducerQ ==
    \/ Scan(QLine(Len(scanned)), QLen)
    \/ Send
    \/ Close

\* producer and tick handler alone
NextQ ==
    \/ ProducerQ
    \/ Drain

SpecQ == Init /\ [][NextQ]_vars

\* weak fairness of DrainRecv, with its enabling condition written out
DrainRecvFair ==
    []<>(~(pc = "drain" /\ lines # <<>>)) \/ []<><<DrainRecv>>_vars

\* the goroutine scheduler lets a send that has room proceed, tea.Tick re-arms
\* the tick each time the handler returns, and the handler's loop keeps running;
\* whether the source delivers another line is up to the source
FairSpecQ ==
    /\ SpecQ
    /\ WF_vars(Send)
    /\ WF_vars(Tick)
    /\ WF_vars(DrainDone)
    /\ WF_vars(DrainClosed)
    /\ DrainRecvFair

\* -------------------------------------------------------------------------
\* What the tables should hold, read off RawHistory
\* -------------------------------------------------------------------------

\* the fields of a raw line
Parts(line) == SplitTab(TrimSpace(line))

\* a raw line that is a numeric observation
IsObservation(line) == TrimSpace(line) # <<>> /\ ParseFloat(Parts(line)[1]).ok

\* the pinned (value, column) pairs
Pins == {<<p, pinnedFacetsColumn[p]>> : p \in pinnedFacets \cap DOMAIN pinnedFacetsColumn}

\* every pin whose column is within the record matches the record's field there
PassesPins(parts) ==
    \A pin \in Pins : pin[2] + 1 <= Len(parts) => parts[pin[2] + 1] = pin[1]

\* the record has, at every pinned column, the pinned value
MatchesPins(parts) ==
    \A pin \in Pins : pin[2] + 1 <= Len(parts) /\ parts[pin[2] + 1] = pin[1]

\* which records an aggregate keeps: "all", those that pass the pins ("passes"),
\* or those that match every pin ("matches")
Kept(parts, keep) ==
    IF keep = "passes" THEN PassesPins(parts)
    ELSE IF keep = "matches" THEN MatchesPins(parts)
    ELSE TRUE

RECURSIVE SamplesOf(_, _, _, _)
\* the values, in order, of the observations of ls that carry v in facet column c
\* and are kept
SamplesOf(ls, c, v, keep) ==
    IF ls = <<>> THEN <<>>
    ELSE LET parts == Parts(Head(ls))
             here  == IF /\ IsObservation(Head(ls))
                         /\ c + 1 <= Len(parts)
                         /\ parts[c + 1] = v
                         /\ Kept(parts, keep)
                      THEN <<ParseFloat(parts[1]).value>> ELSE <<>>
         IN  here \o SamplesOf(Tail(ls), c, v, keep)

\* table[c][v], empty when the column or the value is absent
TableSamples(table, c, v) ==
    IF c \in DOMAIN table /\ v \in DOMAIN table[c] THEN table[c][v] ELSE <<>>

\* every column index and every facet value that occurs in RawHistory or a table
AllColumns ==
    DOMAIN facetsData \cup DOMAIN filteredData
        \cup UNION {1..Len(Parts(storedLines[i])) : i \in 1..Len(storedLines)}

AllValues ==
    UNION {DOMAIN facetsData[c] : c \in DOMAIN facetsData}
        \cup UNION {DOMAIN filteredData[c] : c \in DOMAIN filteredData}
        \cup UNION {{Parts(storedLines[i])[j] : j \in 1..Len(Parts(storedLines[i]))} :
                        i \in 1..Len(storedLines)}

\* no entry of the table holds an empty sample sequence
NoEmptyEntry(table) ==
    \A c \in DOMAIN table : \A v \in DOMAIN table[c] : table[c][v] # <<>>

\* the table holds no sample at all
NoSamples(table) == \A c \in DOMAIN table : DOMAIN table[c] = {}

RECURSIVE IsSubseq(_, _)
\* s can be obtained from t by deleting elements
IsSubseq(s, t) ==
    IF s = <<>> THEN TRUE
    ELSE IF t = <<>> THEN FALSE
    ELSE IF Head(s) = Head(t) THEN IsSubseq(Tail(s), Tail(t))
    ELSE IsSubseq(s, Tail(t))

\* -------------------------------------------------------------------------
\* C1
\* -------------------------------------------------------------------------

\* C1: while the pin set is non-empty, the filtered table is exactly the
\* aggregate of the RawHistory observations that pass the filter predicate
\* (each pin whose column is within the record matches): filtered[c][v] is the
\* sequence of their values, for every column c and facet value v, and nothing else.
C1_FilteredIsAggregateOfPassing ==
    pinnedFacets # {} =>
        /\ \A c \in AllColumns : \A v \in AllValues :
               TableSamples(filteredData, c, v) = SamplesOf(storedLines, c, v, "passes")
        /\ NoEmptyEntry(filteredData)

\* a pin is active, some observation passed it and some other was rejected
C1_Witness ==
    /\ pinnedFacets # {}
    /\ ~NoSamples(filteredData)
    /\ \E c \in AllColumns : \E v \in AllValues :
           TableSamples(filteredData, c, v) # TableSamples(facetsData, c, v)

\* -------------------------------------------------------------------------
\* C2
\* -------------------------------------------------------------------------

\* C2: while pins are active, every sample in the filtered table comes from a raw
\* line whose field at the pinned column equals the pinned value, for every pin,
\* records shorter than the pinned column included.
C2_SamplesMatchEveryPin ==
    pinnedFacets # {} =>
        \A c \in AllColumns : \A v \in AllValues :
            IsSubseq(TableSamples(filteredData, c, v),
                     SamplesOf(storedLines, c, v, "matches"))

\* -------------------------------------------------------------------------
\* C3
\* -------------------------------------------------------------------------

\* C3: once the producer has closed the queue, a drain that has seen the closed,
\* empty queue has returned: the event loop is idle again, ready for the next
\* tick or command.
C3_DrainReturnsAfterClose ==
    (ppc = "closed" /\ lines = <<>> /\ spins >= 1) => pc = "idle"

\* -------------------------------------------------------------------------
\* C4
\* -------------------------------------------------------------------------

\* the line the producer holds while blocked in the send
Pending == IF ppc = "send" THEN <<scanned[Len(scanned)]>> ELSE <<>>

\* C4: the queue never holds more than ChanCap lines, and the lines read from the
\* source are exactly RawHistory, then the queue, then the line the producer is
\* blocked on: nothing is dropped, duplicated or reordered, and RawHistory is a
\* prefix of the lines read.
C4_BoundedQueueNoLoss ==
    /\ Len(lines) <= ChanCap
    /\ scanned = storedLines \o lines \o Pending

\* the queue is full and the producer is blocked with the next line in hand
C4_Witness ==
    /\ Len(lines) = ChanCap
    /\ ppc = "send"
    /\ storedLines # <<>>

\* -------------------------------------------------------------------------
\* C5
\* -------------------------------------------------------------------------

\* the full table is the aggregate of every observation of RawHistory
FullIsAggregate ==
    \A c \in AllColumns : \A v \in AllValues :
        TableSamples(facetsData, c, v) = SamplesOf(storedLines, c, v, "all")

\* C5: with the producer and the ticks scheduled fairly, every line read from the
\* source ends up in RawHistory and in the full table (from some point on
\* RawHistory is the whole of what was read), and a tick handler that returns
\* leaves the queue empty.
C5_EveryLineIngested ==
    /\ [][(pc = "drain" /\ pc' = "idle") => lines' = <<>>]_vars
    /\ <>[](storedLines = scanned /\ FullIsAggregate)

\* the whole source has been read and ingested, and the tick handler has returned
C5_Witness ==
    /\ Len(scanned) = QLen
    /\ storedLines = scanned
    /\ FullIsAggregate
    /\ pc = "idle"

\* -------------------------------------------------------------------------
\* C6
\* -------------------------------------------------------------------------

\* C6: while pins are active, the filtered table kept up to date line by line holds
\* the same sample sequence, for every column and facet value, as a rebuild of
\* filtered from RawHistory would produce in that state.
C6_IncrementalEqualsReplay ==
    pinnedFacets # {} =>
        LET rebuilt == regenerateFilteredData(Engine).filteredData
        IN  \A c \in AllColumns \cup DOMAIN rebuilt : \A v \in AllValues :
                TableSamples(filteredData, c, v) = TableSamples(rebuilt, c, v)

\* a line was ingested while a pin was active, and it passed the filter: the last
\* sample of some filtered entry is that line's value
C6_Witness ==
    /\ pinnedFacets # {}
    /\ last = "line"
    /\ LET line == storedLines[Len(storedLines)]
       IN  /\ IsObservation(line)
           /\ PassesPins(Parts(line))
           /\ Len(Parts(line)) >= 2
           /\ TableSamples(filteredData, 1, Parts(line)[2]) # <<>>

\* -------------------------------------------------------------------------
\* C7
\* -------------------------------------------------------------------------

\* C7: while pins are active, rebuilding the filtered table and rebuilding it again
\* gives the same filtered table both times, and neither rebuild changes the full
\* table, RawHistory, StringCounts or the record counter.
C7_RebuildIdempotent ==
    pinnedFacets # {} =>
        LET once  == regenerateFilteredData(Engine)
            twice == regenerateFilteredData(once)
        IN  /\ twice.filteredData = once.filteredData
            /\ \A m \in {once, twice} :
                   /\ m.facetsData = facetsData
                   /\ m.storedLines = storedLines
                   /\ m.stringValues = stringValues
                   /\ m.totalLogCount = totalLogCount

\* a pin toggle has just rebuilt a filtered table that holds samples, over a
\* history that also holds a counted string
C7_Witness ==
    /\ pinnedFacets # {}
    /\ last = "enter"
    /\ ~NoSamples(filteredData)
    /\ DOMAIN stringValues # {}

\* -------------------------------------------------------------------------
\* C8
\* -------------------------------------------------------------------------

\* C8: whenever the pin set is empty, the filtered table is the empty table.
C8_FilteredEmptyWithoutPins ==
    pinnedFacets = {} => NoSamples(filteredData)

\* C8 (amended): whenever the pin set is empty the filter flag is off, so the full
\* table is the data source, and no step that ends with an empty pin set changes
\* the filtered table: lines ingested without pins never add to it, and removing
\* the last pin leaves it as the last rebuild made it.
C8_UnfilteredLeavesFilteredAlone ==
    [][pinnedFacets' = {} => (~isFiltered' /\ filteredData' = filteredData)]_vars

\* the last pin has just been removed and the filtered table still holds samples
C8_Witness ==
    /\ pinnedFacets = {}
    /\ last = "enter"
    /\ ~NoSamples(filteredData)

\* -------------------------------------------------------------------------
\* C9
\* -------------------------------------------------------------------------

\* the active facet value is empty or a key of the displayed data source in the
\* current view
ActiveResolves ==
    LET ds == DataSource(isFiltered)
    IN  \/ activeFacet = <<>>
        \/ facet = 0 /\ \E c \in DOMAIN ds : activeFacet \in DOMAIN ds[c]
        \/ facet > 0 /\ facet \in DOMAIN ds /\ activeFacet \in DOMAIN ds[facet]

\* C9: after a pin toggle that changes the pin set, and after a switch of the view
\* column, the active facet value, if non-empty, is a key of the displayed data
\* source (full without pins, filtered with pins) in the current view.
C9_ActiveResolvesAfterChange ==
    [][((KeyEnter /\ pinnedFacets' # pinnedFacets) \/
        ((KeyA \/ KeyD \/ Key0) /\ facet' # facet)) => ActiveResolves']_vars

\* -------------------------------------------------------------------------
\* C10
\* -------------------------------------------------------------------------

\* the four MoveSelection deltas <<dx, dy>>
Moves == {<<-1, 0>>, <<1, 0>>, <<0, -1>>, <<0, 1>>}

\* in single-column view with the selection on a key of the column, the target
\* cell of the move lies outside the row-major rectangle of width C over N keys
TargetOutside(move) ==
    LET ds      == DataSource(isFiltered)
        C       == Max(1, winWidth \div PanelWidth)
    IN  \A keys \in Rankings(ds[facet]) :
            LET index == IndexOf(keys, activeFacet)
                row   == (index \div C) + move[2]
                col   == (index % C) + move[1]
            IN  row < 0 \/ col < 0 \/ col >= C \/ row * C + col >= Len(keys)

\* C10: in single-column view, a MoveSelection whose target cell lies outside the
\* grid rectangle leaves the selection unchanged; a move right from the last grid
\* column does not wrap to the next row.
C10_OutsideMoveRejected ==
    (facet > 0 /\ facet \in DOMAIN DataSource(isFiltered)
               /\ activeFacet \in DOMAIN DataSource(isFiltered)[facet]) =>
        \A move \in Moves :
            TargetOutside(move) => navigateGrid(move[1], move[2]) = {activeFacet}

\* -------------------------------------------------------------------------
\* C11
\* -------------------------------------------------------------------------

\* C11: in single-column view over a column with at least one key, whatever the
\* selection was before, every MoveSelection (left, right, up or down) leaves the
\* selection on one of the column's keys: its index in the ranked order is
\* within [0, N-1].
C11_SingleMoveStaysOnKeys ==
    LET ds == DataSource(isFiltered)
    IN  (facet > 0 /\ facet \in DOMAIN ds /\ DOMAIN ds[facet] # {}) =>
            \A move \in Moves : \A keys \in Rankings(ds[facet]) :
                LET index == IndexOf(keys, NavSingle(keys, move[1], move[2]))
                IN  /\ navigateGrid(move[1], move[2]) \subseteq DOMAIN ds[facet]
                    /\ 0 <= index /\ index <= Len(keys) - 1

\* a move in a two-column grid over three keys has just left the selection on
\* the last of them, and a further move down or right points outside the grid
C11_Witness ==
    /\ last = "move"
    /\ facet > 0
    /\ winWidth \div PanelWidth = 2
    /\ facet \in DOMAIN facetsData
    /\ \E keys \in Rankings(facetsData[facet]) : Len(keys) = 3 /\ activeFacet = keys[3]

\* -------------------------------------------------------------------------
\* C12
\* -------------------------------------------------------------------------

\* the index a vertical move by dy leads to from index i of a list of n entries
Clamp(i, dy, n) ==
    IF i + dy < 0 THEN 0 ELSE IF i + dy > n - 1 THEN n - 1 ELSE i + dy

\* C12: in aggregate view with the selection on an entry of the address list, a
\* move up or down takes the selection's index in the list to index - 1 or
\* index + 1, an entry of the list, and leaves the selection where it is when it
\* is on the first entry (up) or on the last entry (down).
C12_VerticalMoveByOne ==
    facet = 0 =>
        \A allKeys \in AddressLists(DataSource(isFiltered)) : \A dy \in {-1, 1} :
            IndexOf(allKeys, activeFacet) # -1 =>
                LET after == NavAll(activeFacet, allKeys, 0, dy)
                IN  /\ IndexOf(allKeys, after)
                           = Clamp(IndexOf(allKeys, activeFacet), dy, Len(allKeys))
                    /\ (dy = 1 /\ activeFacet = allKeys[Len(allKeys)]) => after = activeFacet
                    /\ (dy = -1 /\ activeFacet = allKeys[1]) => after = activeFacet

\* -------------------------------------------------------------------------
\* C13
\* -------------------------------------------------------------------------

\* C13: in aggregate view a move left or right leaves the active selection as it
\* was, also when it is empty or no longer an entry of the address list.
C13_HorizontalMoveNoOp ==
    facet = 0 => \A dx \in {-1, 1} : navigateGrid(dx, 0) = {activeFacet}

\* -------------------------------------------------------------------------
\* C14
\* -------------------------------------------------------------------------

\* keys is ranked: greater mean first, and among equal means the smaller key first
IsRanked(facetData, keys) ==
    \A i, j \in 1..Len(keys) :
        LET meanI == computeMean(facetData[keys[i]])
            meanJ == computeMean(facetData[keys[j]])
        IN  /\ MeanGreater(meanI, meanJ) => i < j
            /\ (~MeanDiffers(meanI, meanJ) /\ StrLess(keys[i], keys[j])) => i < j

\* keys holds every key of the map exactly once
IsPermutation(facetData, keys) ==
    /\ Len(keys) = Cardinality(DOMAIN facetData)
    /\ {keys[i] : i \in 1..Len(keys)} = DOMAIN facetData

\* C14: for every column of the full table, whatever order the map is iterated
\* in, getSortedFacetKeys returns every key exactly once, ranked by descending
\* mean and then ascending key, and every iteration order (so every call on
\* the unchanged map) gives the same sequence.
C14_RankingDeterministic ==
    \A c \in DOMAIN facetsData :
        /\ \A keys \in Rankings(facetsData[c]) :
               IsPermutation(facetsData[c], keys) /\ IsRanked(facetsData[c], keys)
        /\ Cardinality(Rankings(facetsData[c])) = 1

\* -------------------------------------------------------------------------
\* C15
\* -------------------------------------------------------------------------

\* the lowest column of the full table that holds the value, 0 when none does
LowestColumn(value) ==
    LET cols == {c \in DOMAIN facetsData : value \in DOMAIN facetsData[c]}
    IN  IF cols = {} THEN 0 ELSE CHOOSE c \in cols : \A d \in cols : c <= d

\* C15: a TogglePin that adds a value binds it to the selected column in
\* single-column view and, in aggregate view, to the lowest column of the full
\* table that holds the value.
C15_PinBindingDeterministic ==
    [][(KeyEnter /\ activeFacet # <<>> /\ activeFacet \notin pinnedFacets) =>
         /\ activeFacet \in DOMAIN pinnedFacetsColumn'
         /\ pinnedFacetsColumn'[activeFacet]
                = (IF facet > 0 THEN facet ELSE LowestColumn(activeFacet))]_vars

\* -------------------------------------------------------------------------
\* C16
\* -------------------------------------------------------------------------

\* the step receives a line from the queue and ingests it
Ingests == pc = "drain" /\ lines # <<>> /\ lines' = Tail(lines)

\* the ingested lines parsed once: whether each is an observation, its value and
\* its facet fields
Records(ls) ==
    [i \in 1..Len(ls) |->
        LET parts == Parts(ls[i])
        IN  [observation |-> IsObservation(ls[i]),
             value       |-> ParseFloat(parts[1]).value,
             facets      |-> Tail(parts)]]

RECURSIVE ValuesAt(_, _, _, _)
\* the values, in order from record i on, of the observations that carry v in
\* facet column c
ValuesAt(recs, i, c, v) ==
    IF i > Len(recs) THEN <<>>
    ELSE (IF recs[i].observation /\ c <= Len(recs[i].facets) /\ recs[i].facets[c] = v
          THEN <<recs[i].value>> ELSE <<>>) \o ValuesAt(recs, i + 1, c, v)

\* full[c][v] is the arrival-order sequence of the values of the ingested
\* observations whose c-th facet field is v, for every column and facet value of
\* the table or of an ingested line, and no entry of full is empty
FullIsArrivalOrder ==
    LET recs    == Records(storedLines)
        columns == DOMAIN facetsData
                       \cup UNION {1..Len(recs[i].facets) : i \in DOMAIN recs}
        values  == UNION {DOMAIN facetsData[c] : c \in DOMAIN facetsData}
                       \cup UNION {{recs[i].facets[j] : j \in 1..Len(recs[i].facets)} :
                                       i \in DOMAIN recs}
    IN  /\ \A c \in columns : \A v \in values :
               TableSamples(facetsData, c, v) = ValuesAt(recs, 1, c, v)
        /\ NoEmptyEntry(facetsData)

\* C16: in every state full[c][v] is exactly the sequence, in arrival order, of
\* the values of the ingested observations whose c-th facet field is v (and full
\* has no other entry), and a step that ingests no line (a pin toggle with its
\* rebuild, a move, a view switch) leaves the full table as it was.
C16_FullIsArrivalOrderAggregate ==
    /\ []FullIsArrivalOrder
    /\ [][~Ingests => facetsData' = facetsData]_vars

\* a pin toggle has just rebuilt a filtered table that differs from the full one,
\* and some entry of the full table holds two samples in arrival order
C16_Witness ==
    /\ last = "enter"
    /\ pinnedFacets # {}
    /\ filteredData # facetsData
    /\ \E c \in DOMAIN facetsData : \E v \in DOMAIN facetsData[c] :
           Len(facetsData[c][v]) >= 2 /\ facetsData[c][v][1] # facetsData[c][v][2]

\* -------------------------------------------------------------------------
\* C17
\* -------------------------------------------------------------------------

\* C17: a step that ingests a line appends exactly that line, as received, at the
\* end of RawHistory, and every other step (pin toggle, rebuild, move, view
\* switch) leaves RawHistory unchanged; so RawHistory only ever grows at its end.
C17_RawHistoryAppendOnly ==
    [][IF Ingests THEN storedLines' = Append(storedLines, Head(lines))
                  ELSE storedLines' = storedLines]_vars

\* a line with a trailing tab was ingested after a pin toggle over earlier history
C17_Witness ==
    /\ last = "line"
    /\ pinnedFacets # {}
    /\ Len(storedLines) >= 2
    /\ TrimSpace(storedLines[Len(storedLines)]) # storedLines[Len(storedLines)]

\* -------------------------------------------------------------------------
\* C18
\* -------------------------------------------------------------------------

\* the lines of ls that are not empty once trimmed
NonEmptyLines(ls) == {i \in 1..Len(ls) : TrimSpace(ls[i]) # <<>>}

\* C18: the record counter always equals the number of non-empty lines ingested;
\* ingesting a non-empty line, numeric or not, with or without pins, adds exactly
\* one, and no other step (an empty line, a pin toggle with its rebuild) changes it.
C18_CounterCountsNonEmptyLines ==
    /\ [](totalLogCount = Cardinality(NonEmptyLines(storedLines)))
    /\ [][IF Ingests /\ TrimSpace(Head(lines)) # <<>>
          THEN totalLogCount' = totalLogCount + 1
          ELSE totalLogCount' = totalLogCount]_vars

\* with a pin active, an observation, a non-numeric line and an empty line have
\* been ingested, the last of them through the filtered pass as well
C18_Witness ==
    /\ last = "line"
    /\ isFiltered
    /\ DOMAIN stringValues # {}
    /\ totalLogCount = 2
    /\ Len(storedLines) = 3

\* -------------------------------------------------------------------------
\* C19
\* -------------------------------------------------------------------------

\* a raw line whose first field is not a number
IsCategory(line) == TrimSpace(line) # <<>> /\ ~ParseFloat(Parts(line)[1]).ok

\* the lines of ls that count the string k
CategoryLines(ls, k) == {i \in 1..Len(ls) : IsCategory(ls[i]) /\ Parts(ls[i])[1] = k}

\* C19: StringCounts holds, for each non-numeric first field, the number of
\* ingested lines that start with it, and nothing else; ingesting such a line
\* adds one to its count and no sample to full or filtered, also while pins are
\* active; ingesting an observation, and every step that ingests nothing (a pin
\* toggle replaying the history), leaves StringCounts unchanged.
C19_ObservationOrString ==
    /\ [](/\ DOMAIN stringValues = {Parts(storedLines[i])[1] :
                                       i \in {j \in 1..Len(storedLines) : IsCategory(storedLines[j])}}
          /\ \A k \in DOMAIN stringValues :
                 stringValues[k] = Cardinality(CategoryLines(storedLines, k)))
    /\ [][IF Ingests /\ IsCategory(Head(lines))
          THEN /\ facetsData' = facetsData
               /\ filteredData' = filteredData
               /\ stringValues'[Parts(Head(lines))[1]]
                      = Lookup(stringValues, Parts(Head(lines))[1], 0) + 1
          ELSE stringValues' = stringValues]_vars

\* the same non-numeric line has been ingested twice, the second time with a pin
\* active, and a pin toggle has replayed the history since
C19_Witness ==
    /\ last = "enter"
    /\ isFiltered
    /\ \E k \in DOMAIN stringValues : stringValues[k] = 2
    /\ ~NoSamples(facetsData)

\* -------------------------------------------------------------------------
\* C20
\* -------------------------------------------------------------------------

\* C20: every column of the filtered table is a column of the full table, every
\* facet value of it is a facet value of that column of the full table, and
\* its filtered samples are a subsequence of its full samples.
C20_FilteredWithinFull ==
    \A c \in DOMAIN filteredData :
        /\ c \in DOMAIN facetsData
        /\ \A v \in DOMAIN filteredData[c] :
               /\ v \in DOMAIN facetsData[c]
               /\ IsSubseq(filteredData[c][v], facetsData[c][v])

\* with a pin active a line has been ingested, and some entry of the filtered
\* table holds some but not all of the samples of the full table's entry
C20_Witness ==
    /\ last = "line"
    /\ isFiltered
    /\ \E c \in DOMAIN filteredData : \E v \in DOMAIN filteredData[c] :
           /\ filteredData[c][v] # <<>>
           /\ Len(filteredData[c][v]) < Len(facetsData[c][v])

\* -------------------------------------------------------------------------
\* C21
\* -------------------------------------------------------------------------

\* the column a pinned value is bound to, 0 when it has no binding
Binding(columns, value) == Lookup(columns, value, 0)

\* C21: in every step, a value that is pinned before and after keeps its column
\* binding; the pin set and the bindings change only in a pin toggle, and a
\* toggle adds or removes the active value and its binding and nothing else.
C21_BindingFixedAtPinTime ==
    [][/\ \A v \in pinnedFacets \cap pinnedFacets' :
              Binding(pinnedFacetsColumn', v) = Binding(pinnedFacetsColumn, v)
       /\ (pinnedFacets' # pinnedFacets \/ pinnedFacetsColumn' # pinnedFacetsColumn) =>
              /\ KeyEnter
              /\ (pinnedFacets' \ pinnedFacets) \cup (pinnedFacets \ pinnedFacets')
                     = {activeFacet}
              /\ DOMAIN pinnedFacetsColumn' = pinnedFacets'
              /\ \A v \in pinnedFacets' \ {activeFacet} :
                     pinnedFacetsColumn'[v] = pinnedFacetsColumn[v]]_vars

\* two values are pinned, under different columns, one of them a value that the
\* full table also holds in the other column, and a line has been ingested since
C21_Witness ==
    /\ last = "line"
    /\ Cardinality(pinnedFacets) = 2
    /\ \E v, w \in pinnedFacets :
           /\ pinnedFacetsColumn[v] # pinnedFacetsColumn[w]
           /\ \E c \in DOMAIN facetsData :
                  c # pinnedFacetsColumn[v] /\ v \in DOMAIN facetsData[c]

\* -------------------------------------------------------------------------
\* C22
\* -------------------------------------------------------------------------

\* C22: the view column index is always within [0, M], M the highest column index
\* of the active data source (0 for an empty one); SwitchFacetColumn(+1) at M
\* and SwitchFacetColumn(-1) at 0 leave it unchanged.
C22_ViewColumnWithinRange ==
    /\ [](0 <= facet /\ facet <= MaxFacet(DataSource(isFiltered)))
    /\ [][(KeyD /\ facet = MaxFacet(DataSource(isFiltered))) => facet' = facet]_vars
    /\ [][(KeyA /\ facet = 0) => facet' = facet]_vars

\* with a pin active the view is on the highest column of the filtered table,
\* two switches away from the aggregate view
C22_Witness ==
    /\ last = "key"
    /\ isFiltered
    /\ facet = 2
    /\ facet = MaxFacet(DataSource(isFiltered))

\* -------------------------------------------------------------------------
\* C23
\* -------------------------------------------------------------------------

\* the line received in this step is empty once trimmed
IngestsEmpty == Ingests /\ TrimSpace(Head(lines)) = <<>>

\* C23: ingesting a line that is empty after trimming changes neither the full
\* table, the filtered table, StringCounts, the record counter nor RawHistory.
C23_EmptyLineNoOp ==
    [][IngestsEmpty => UNCHANGED <<facetsData, filteredData, stringValues,
                                   totalLogCount, storedLines>>]_vars

\* C23 (amended): ingesting a line that is empty after trimming changes neither
\* the full table, the filtered table, StringCounts, the record counter, the
\* pins nor the view, and the drain goes on; the line is appended to RawHistory
\* as received, like every other line.
C23_EmptyLineOnlyStored ==
    [][IngestsEmpty =>
          /\ UNCHANGED <<facetsData, filteredData, stringValues, totalLogCount>>
          /\ UNCHANGED <<pinVars, viewVars, pc>>
          /\ storedLines' = Append(storedLines, Head(lines))]_vars

\* with a pin active and samples in both tables, the line ingested last was empty
C23_Witness ==
    /\ last = "line"
    /\ isFiltered
    /\ ~NoSamples(filteredData)
    /\ storedLines # <<>>
    /\ TrimSpace(storedLines[Len(storedLines)]) = <<>>

\* -------------------------------------------------------------------------
\* C24
\* -------------------------------------------------------------------------

\* a line with a non-numeric first field has been ingested
CategorySeen == \E i \in 1..Len(storedLines) : IsCategory(storedLines[i])

\* C24: the view is in string-frequency mode exactly when a line with a
\* non-numeric first field has been ingested, and once in that mode no step
\* (line, pin toggle, view switch, move) leaves it.
C24_StringModeForever ==
    /\ [](ViewMode(stringValues, facet) = "strings" <=> CategorySeen)
    /\ [][ViewMode(stringValues, facet) = "strings" =>
              ViewMode(stringValues', facet') = "strings"]_vars

\* a non-numeric line was followed by an observation, a pin is active and the
\* view was switched to a single column: the view is in string-frequency mode
C24_Witness ==
    /\ ViewMode(stringValues, facet) = "strings"
    /\ last = "key"
    /\ facet # 0
    /\ isFiltered
    /\ \E i, j \in 1..Len(storedLines) :
           i < j /\ IsCategory(storedLines[i]) /\ IsObservation(storedLines[j])

\* -------------------------------------------------------------------------
\* C29
\* -------------------------------------------------------------------------

\* the sample sequences the renderers summarise: those of the view column, or
\* of every column in the all-facets view
SummaryInputs(ds, f) ==
    {ds[c][k] : <<c, k>> \in {ck \in UNION {{c} \X DOMAIN ds[c] : c \in DOMAIN ds} :
                                 f = 0 \/ ck[1] = f}}

\* C29: every (column, value) entry of the full and of the filtered table holds
\* at least one sample, so mean, standard deviation and count are never
\* computed over a sample sequence of length 0.
C29_EveryEntryHasASample ==
    /\ NoEmptyEntry(facetsData)
    /\ NoEmptyEntry(filteredData)
    /\ \A values \in SummaryInputs(DataSource(isFiltered), facet) : Len(values) > 0

\* the filtered table is displayed, a rebuild has created a column that no kept
\* record fills, and another column of it holds an entry
C29_Witness ==
    /\ isFiltered
    /\ \E c \in DOMAIN filteredData : DOMAIN filteredData[c] = {}
    /\ SummaryInputs(filteredData, facet) # {}
    /\ \E c \in DOMAIN facetsData : \E k \in DOMAIN facetsData[c] :
           Len(facetsData[c][k]) >= 2

\* -------------------------------------------------------------------------
\* C27
\* -------------------------------------------------------------------------

RECURSIVE SortInts(_)
\* sort.Ints(facets): the column indices in ascending order
SortInts(S) ==
    IF S = {} THEN <<>>
    ELSE LET least == CHOOSE c \in S : \A d \in S : c <= d
         IN  <<least>> \o SortInts(S \ {least})

\* the concatenations of the ranked keys of each column in ascending column order
ColumnOrderLists(ds) == ConcatKeys(ds, SortInts(DOMAIN ds), 1)

\* C27: in aggregate view the address list MoveSelection works on is the
\* concatenation of the ranked keys of each column in ascending column order,
\* so a vertical move from the current selection has one possible outcome.
C27_AddressListInColumnOrder ==
    facet = 0 =>
        /\ AddressLists(DataSource(isFiltered)) = ColumnOrderLists(DataSource(isFiltered))
        /\ \A dy \in {-1, 1} : Cardinality(navigateGrid(0, dy)) = 1

\* -------------------------------------------------------------------------
\* C28
\* -------------------------------------------------------------------------

\* the keys of the view with column f: those of the column, or of every column
\* in the all-facets view
ViewKeys(ds, f) ==
    IF f = 0 THEN UNION {DOMAIN ds[c] : c \in DOMAIN ds}
    ELSE DOMAIN Lookup(ds, f, EmptyMap)

\* the first ranked key of the view with column f; in the all-facets view, of
\* the lowest column that has keys
FirstRankedKeys(ds, f) ==
    LET withKeys == {c \in DOMAIN ds : DOMAIN ds[c] # {}}
        col      == IF f = 0 THEN CHOOSE c \in withKeys : \A d \in withKeys : c <= d ELSE f
    IN  {keys[1] : keys \in Rankings(ds[col])}

\* C28: a key that changes the view column keeps the active value when it is
\* a key of the new view, and otherwise selects the first ranked key of the new
\* view (of its lowest column, in the all-facets view).
C28_SwitchKeepsSelection ==
    [][((KeyA \/ KeyD \/ Key0) /\ facet' # facet) =>
          LET ds == DataSource(isFiltered)
          IN  IF activeFacet \in ViewKeys(ds, facet')
              THEN activeFacet' = activeFacet
              ELSE ViewKeys(ds, facet') # {} => activeFacet' \in FirstRankedKeys(ds, facet')]_vars

\* -------------------------------------------------------------------------
\* C30
\* -------------------------------------------------------------------------

RECURSIVE Visited(_, _, _, _)
\* the values selected from a by up to n vertical moves dy over the address list
Visited(a, allKeys, dy, n) ==
    IF n = 0 THEN {a}
    ELSE {a} \cup Visited(NavAll(a, allKeys, 0, dy), allKeys, dy, n - 1)

\* C30: in aggregate view, over any address list the data can give, repeated
\* moves down from any entry select the last entry and repeated moves up select
\* the first, so every entry can be selected, duplicates included.
C30_EveryEntryReachable ==
    facet = 0 =>
        \A allKeys \in AddressLists(DataSource(isFiltered)) :
            \A i \in 1..Len(allKeys) :
                /\ allKeys[Len(allKeys)] \in Visited(allKeys[i], allKeys, 1, Len(allKeys))
                /\ allKeys[1] \in Visited(allKeys[i], allKeys, -1, Len(allKeys))
                /\ allKeys[i] \in Visited(allKeys[1], allKeys, 1, Len(allKeys))

\* -------------------------------------------------------------------------
\* C25
\* -------------------------------------------------------------------------

\* C25: once the four lines of the README example are ingested, full column 1
\* is {red: [10.5, 15.2], blue: [8.7, 12.1]}, its ranked order is [red, blue]
\* and the global range of the unfiltered data is (8.7, 15.2); with red pinned
\* under column 1 and nothing else, filtered column 2 is {seattle: [10.5],
\* san jose: [15.2]}.
C25_ReadmeExample ==
    storedLines = ExampleLines =>
        /\ facetsData[1] = (red :> <<105, 152>>) @@ (blue :> <<87, 121>>)
        /\ Rankings(facetsData[1]) = {<<red, blue>>}
        /\ globalRange(facetsData) = {[ok |-> TRUE, gmin |-> 87, gmax |-> 152]}
        /\ (pinnedFacets = {red} /\ pinnedFacetsColumn[red] = 1) =>
               /\ isFiltered
               /\ filteredData[2] = (seattle :> <<105>>) @@ (sanjose :> <<152>>)

\* the four lines are in, the last of them ingested after red was pinned under
\* column 1 from the single-column view
C25_Witness ==
    /\ storedLines = ExampleLines
    /\ last = "line"
    /\ facet = 1
    /\ pinnedFacets = {red}
    /\ pinnedFacetsColumn[red] = 1

\* the four lines are in and red was pinned afterwards, from the aggregate view
C25_WitnessRebuild ==
    /\ storedLines = ExampleLines
    /\ last = "enter"
    /\ facet = 0
    /\ pinnedFacets = {red}
    /\ pinnedFacetsColumn[red] = 1

\* -------------------------------------------------------------------------
\* C26
\* -------------------------------------------------------------------------

RECURSIVE SumCounts(_)
\* the sum of the bucket counts
SumCounts(bins) == IF bins = <<>> THEN 0 ELSE Head(bins) + SumCounts(Tail(bins))

\* the panel's samples are counted once each in buckets 0..K-1, those equal to
\* gmax in bucket K-1
Bucketized(panel, gmax, K) ==
    /\ Len(panel.bins) = K
    /\ SumCounts(panel.bins) = Len(panel.values)
    /\ panel.bins[K] >= Cardinality({i \in 1..Len(panel.values) : panel.values[i] = gmax})

\* C26: whenever View has rendered histograms over a global range with
\* min < max, every panel's samples were each assigned to one bucket in
\* [0, K-1], K the renderer's bucket count, a sample equal to max to bucket
\* K-1, so that the bucket counts sum to the number of samples.
C26_BucketizeConserves ==
    (view.gmin # NaN /\ view.gmin < view.gmax) =>
        /\ view.mode \in {"single", "multi"}
        /\ \A e \in DOMAIN view.panels :
               Bucketized(view.panels[e], view.gmax,
                          IF view.mode = "single" THEN binCount ELSE bucketCount)

\* -------------------------------------------------------------------------
\* C31
\* -------------------------------------------------------------------------

\* C31: the filter flag is true exactly when a value is pinned, the values with
\* a column binding are the pinned values, and every binding is a column index
\* >= 1 that the full table has.
C31_PinStateConsistent ==
    /\ isFiltered <=> pinnedFacets # {}
    /\ DOMAIN pinnedFacetsColumn = pinnedFacets
    /\ \A v \in pinnedFacets :
           pinnedFacetsColumn[v] >= 1 /\ pinnedFacetsColumn[v] \in DOMAIN facetsData

\* Enter has removed the last pin: the flag is off again while the filtered
\* table still holds the entries of the last rebuild
C31_Witness ==
    /\ last = "enter"
    /\ pinnedFacets = {}
    /\ ~isFiltered
    /\ \E c \in DOMAIN filteredData : DOMAIN filteredData[c] # {}

\* two values are pinned under different columns and the filter is on
C31_WitnessPinned ==
    /\ last = "enter"
    /\ isFiltered
    /\ \E v, w \in pinnedFacets : pinnedFacetsColumn[v] # pinnedFacetsColumn[w]

====
